---- MODULE Spec2Model ----
(***************************************************************************)
(* Model of the authorization verifier of biscuit-rust                     *)
(* (src/token/verifier.rs): the Verifier structure, its builder methods    *)
(* and verify_with_limits, over a small Datalog engine.                    *)
(*                                                                         *)
(* Two levels of data, as in the crate:                                    *)
(*   - builder level: names are strings (builder::Fact, Rule, Check,       *)
(*     Policy); self.checks and self.policies hold this form;              *)
(*   - datalog level: names are indexes in a symbol table (datalog::Fact,  *)
(*     Rule, Check); the world and the token's blocks hold this form.      *)
(* A term is the record [k, s, i]: k the variant, s its string payload,    *)
(* i its integer payload (a symbol or variable index at the datalog level).*)
(***************************************************************************)
EXTENDS Integers, Sequences, FiniteSets, TLC

----------------------------------------------------------------------------
(* Terms: builder::Term and datalog::ID *)

Term(k, str, n) == [k |-> k, s |-> str, i |-> n]

var(name) == Term("var", name, 0)
s(name) == Term("sym", name, 0)
string(x) == Term("str", x, 0)
Integer(n) == Term("int", "", n)
Bytes(b) == Term("bytes", b, 0)
Bool(b) == Term("bool", "", IF b THEN 1 ELSE 0)
date(t) == Term("date", "", t)
NoTerm == Term("none", "", 0)

pred(name, terms) == [name |-> name, terms |-> terms]
fact(name, terms) == pred(name, terms)

(* Expression opcodes: Op::Value of a term, Op::Value of a Term::Set,      *)
(* Op::Binary(Binary::Contains), Op::Unary(Unary::Negate).                 *)
OpValue(t) == [op |-> "Value", term |-> t, elems |-> {}]
OpSet(S) == [op |-> "Set", term |-> NoTerm, elems |-> S]
OpContains == [op |-> "Contains", term |-> NoTerm, elems |-> {}]
OpNegate == [op |-> "Negate", term |-> NoTerm, elems |-> {}]

constrained_rule(head_name, head_terms, body, expressions) ==
    [head |-> pred(head_name, head_terms), body |-> body, expressions |-> expressions]

rule(head_name, head_terms, body) == constrained_rule(head_name, head_terms, body, <<>>)

----------------------------------------------------------------------------
(* Symbol table: datalog::SymbolTable.  The index of a string is its       *)
(* position in the table, counted from 0.                                  *)

default_symbol_table ==
    <<"authority", "ambient", "resource", "operation", "time", "revocation_id">>

Has(symbols, name) == \E n \in 1..Len(symbols) : symbols[n] = name

get(symbols, name) == (CHOOSE n \in 1..Len(symbols) : symbols[n] = name) - 1

insert(symbols, name) == IF Has(symbols, name) THEN symbols ELSE Append(symbols, name)

RECURSIVE InsertAll(_, _)
InsertAll(symbols, names) ==
    IF names = <<>> THEN symbols
    ELSE InsertAll(insert(symbols, Head(names)), Tail(names))

print_symbol(symbols, n) == IF n + 1 \in 1..Len(symbols) THEN symbols[n + 1] ELSE "<?>"

RECURSIVE Flatten(_)
Flatten(seqs) == IF seqs = <<>> THEN <<>> ELSE Head(seqs) \o Flatten(Tail(seqs))

SeqMap(Op(_), xs) == [n \in 1..Len(xs) |-> Op(xs[n])]

----------------------------------------------------------------------------
(* builder -> datalog: convert(&mut symbols) interns every name it meets,  *)
(* in the order it meets them, and replaces the name by its index.         *)

IsNamed(t) == t.k \in {"sym", "var"}

TermNames(t) == IF IsNamed(t) THEN <<t.s>> ELSE <<>>
PredNames(p) == <<p.name>> \o Flatten(SeqMap(TermNames, p.terms))
OpNames(o) == IF o.op = "Value" THEN TermNames(o.term) ELSE <<>>
ExprNames(e) == Flatten(SeqMap(OpNames, e))
RuleNames(r) ==
    PredNames(r.head) \o Flatten(SeqMap(PredNames, r.body))
        \o Flatten(SeqMap(ExprNames, r.expressions))
QueriesNames(c) == Flatten(SeqMap(RuleNames, c.queries))

TermToId(t, symbols) == IF IsNamed(t) THEN Term(t.k, "", get(symbols, t.s)) ELSE t
PredToId(p, symbols) ==
    [name |-> get(symbols, p.name),
     terms |-> [n \in 1..Len(p.terms) |-> TermToId(p.terms[n], symbols)]]
OpToId(o, symbols) == IF o.op = "Value" THEN OpValue(TermToId(o.term, symbols)) ELSE o
RuleToId(r, symbols) ==
    [head |-> PredToId(r.head, symbols),
     body |-> [n \in 1..Len(r.body) |-> PredToId(r.body[n], symbols)],
     expressions |->
        [n \in 1..Len(r.expressions) |->
            [m \in 1..Len(r.expressions[n]) |-> OpToId(r.expressions[n][m], symbols)]]]

(* Fact::convert, Rule::convert, Check::convert: the table after the call  *)
(* and the converted value.                                                *)
FactSymbols(f, symbols) == InsertAll(symbols, PredNames(f))
FactConvert(f, symbols) == PredToId(f, FactSymbols(f, symbols))
RuleSymbols(r, symbols) == InsertAll(symbols, RuleNames(r))
RuleConvert(r, symbols) == RuleToId(r, RuleSymbols(r, symbols))
CheckSymbols(c, symbols) == InsertAll(symbols, QueriesNames(c))
CheckConvert(c, symbols) ==
    [queries |-> [n \in 1..Len(c.queries) |-> RuleToId(c.queries[n], CheckSymbols(c, symbols))]]

(* datalog -> builder: convert_from(&symbols) replaces an index by the     *)
(* string the table holds at it.                                           *)
TermFrom(t, symbols) == IF IsNamed(t) THEN Term(t.k, print_symbol(symbols, t.i), 0) ELSE t
PredFrom(p, symbols) ==
    [name |-> print_symbol(symbols, p.name),
     terms |-> [n \in 1..Len(p.terms) |-> TermFrom(p.terms[n], symbols)]]
FactConvertFrom(f, symbols) == PredFrom(f, symbols)
OpFrom(o, symbols) == IF o.op = "Value" THEN OpValue(TermFrom(o.term, symbols)) ELSE o
RuleConvertFrom(r, symbols) ==
    [head |-> PredFrom(r.head, symbols),
     body |-> [n \in 1..Len(r.body) |-> PredFrom(r.body[n], symbols)],
     expressions |->
        [n \in 1..Len(r.expressions) |->
            [m \in 1..Len(r.expressions[n]) |-> OpFrom(r.expressions[n][m], symbols)]]]
CheckConvertFrom(c, symbols) ==
    [queries |-> [n \in 1..Len(c.queries) |-> RuleConvertFrom(c.queries[n], symbols)]]

(* SymbolTable::print_check: the rendering of a datalog check.  The model  *)
(* keeps the rendering structured: the check with its names resolved.      *)
print_check(symbols, c) == CheckConvertFrom(c, symbols)
print_rule(symbols, r) == RuleConvertFrom(r, symbols)

(* Rule::validate_variables: every variable of the head is in the body.    *)
VarsOfPred(p) == {p.terms[n].s : n \in {m \in 1..Len(p.terms) : p.terms[m].k = "var"}}
validate_variables(r) ==
    VarsOfPred(r.head) \subseteq UNION {VarsOfPred(r.body[n]) : n \in 1..Len(r.body)}

----------------------------------------------------------------------------
(* Datalog engine (crate::datalog): expressions, rule matching, World.     *)

(* Expression::evaluate: a postfix stack machine; the stack holds Value    *)
(* and Set opcodes.  The result is [ok, stack].                            *)
RECURSIVE EvalOps(_, _, _)
EvalOps(ops, stack, binding) ==
    IF ops = <<>> THEN [ok |-> TRUE, stack |-> stack]
    ELSE LET o == Head(ops)
             n == Len(stack)
         IN CASE o.op = "Value" ->
                   IF o.term.k = "var"
                   THEN IF o.term.i \in DOMAIN binding
                        THEN EvalOps(Tail(ops), Append(stack, OpValue(binding[o.term.i])), binding)
                        ELSE [ok |-> FALSE, stack |-> stack]
                   ELSE EvalOps(Tail(ops), Append(stack, o), binding)
              [] o.op = "Set" -> EvalOps(Tail(ops), Append(stack, o), binding)
              [] o.op = "Negate" ->
                   IF n >= 1 /\ stack[n].op = "Value" /\ stack[n].term.k = "bool"
                   THEN EvalOps(Tail(ops),
                                Append(SubSeq(stack, 1, n - 1), OpValue(Bool(stack[n].term.i = 0))),
                                binding)
                   ELSE [ok |-> FALSE, stack |-> stack]
              [] o.op = "Contains" ->
                   IF n >= 2 /\ stack[n - 1].op = "Set" /\ stack[n].op = "Value"
                   THEN EvalOps(Tail(ops),
                                Append(SubSeq(stack, 1, n - 2),
                                       OpValue(Bool(stack[n].term \in stack[n - 1].elems))),
                                binding)
                   ELSE [ok |-> FALSE, stack |-> stack]
              [] OTHER -> [ok |-> FALSE, stack |-> stack]

ExpressionHolds(e, binding) ==
    LET r == EvalOps(e, <<>>, binding)
    IN r.ok /\ Len(r.stack) = 1 /\ r.stack[1] = OpValue(Bool(TRUE))

(* Variables of a rule body and the terms of a fact set. *)
BodyVars(r) ==
    UNION {{r.body[n].terms[m].i : m \in {x \in 1..Len(r.body[n].terms) : r.body[n].terms[x].k = "var"}}
           : n \in 1..Len(r.body)}
TermsOf(facts) == UNION {{f.terms[n] : n \in 1..Len(f.terms)} : f \in facts}

Instantiate(p, binding) ==
    [name |-> p.name,
     terms |-> [n \in 1..Len(p.terms) |->
                    IF p.terms[n].k = "var" THEN binding[p.terms[n].i] ELSE p.terms[n]]]

(* The bindings of the body variables under which every body predicate is  *)
(* a fact (same name, same arity, same terms) and every expression holds.  *)
Matches(r, facts) ==
    {binding \in [BodyVars(r) -> TermsOf(facts)] :
        /\ \A n \in 1..Len(r.body) : Instantiate(r.body[n], binding) \in facts
        /\ \A n \in 1..Len(r.expressions) : ExpressionHolds(r.expressions[n], binding)}

query_match(r, facts) == Matches(r, facts) # {}
RuleApply(r, facts) == {Instantiate(r.head, binding) : binding \in Matches(r, facts)}

(* World::run_with_limits: apply every rule until a pass brings no new     *)
(* fact.  iterations counts the passes done; tmo is the pass during which  *)
(* the clock is found past max_time (0: never).  The result is the status  *)
(* and the facts the world is left with.                                   *)
Derived(facts, rules) == UNION {RuleApply(rules[n], facts) : n \in 1..Len(rules)}

RECURSIVE RunLoop(_, _, _, _, _)
RunLoop(facts, rules, limits, iterations, tmo) ==
    IF tmo = iterations + 1 THEN [status |-> "Timeout", facts |-> facts]
    ELSE LET fresh == Derived(facts, rules) \ facts
             grown == facts \cup fresh
         IN IF fresh = {} THEN [status |-> "Ok", facts |-> facts]
            ELSE IF iterations + 1 >= limits.max_iterations
                 THEN [status |-> "TooManyIterations", facts |-> grown]
            ELSE IF Cardinality(grown) > limits.max_facts
                 THEN [status |-> "TooManyFacts", facts |-> grown]
            ELSE RunLoop(grown, rules, limits, iterations + 1, tmo)

run_with_limits(world, limits, tmo) == RunLoop(world.facts, world.rules, limits, 0, tmo)

(* The passes a run makes when nothing stops it. *)
RECURSIVE PassCount(_, _)
PassCount(facts, rules) ==
    LET fresh == Derived(facts, rules) \ facts
    IN IF fresh = {} THEN 1 ELSE 1 + PassCount(facts \cup fresh, rules)

RunLimitsDefault == [max_facts |-> 1000, max_iterations |-> 100, max_time |-> 1]

----------------------------------------------------------------------------
(* Tokens (super::Biscuit): an authority block, attenuating blocks, the    *)
(* token's own symbol table and one revocation identifier per block.       *)
(* Blocks hold datalog-level data relative to the token's table.           *)

NoToken == [absent |-> TRUE]

Block(facts, rules, block_checks) == [facts |-> facts, rules |-> rules, checks |-> block_checks]

BlockNames(b) ==
    Flatten(SeqMap(PredNames, b.facts)) \o Flatten(SeqMap(RuleNames, b.rules))
        \o Flatten(SeqMap(QueriesNames, b.checks))

BlockToId(b, symbols) ==
    [facts |-> [n \in 1..Len(b.facts) |-> PredToId(b.facts[n], symbols)],
     rules |-> [n \in 1..Len(b.rules) |-> RuleToId(b.rules[n], symbols)],
     checks |-> [n \in 1..Len(b.checks) |->
                    [queries |-> [m \in 1..Len(b.checks[n].queries) |->
                                      RuleToId(b.checks[n].queries[m], symbols)]]]]

Biscuit(authority, blocks, revocation_ids) ==
    LET symbols == InsertAll(default_symbol_table,
                             BlockNames(authority) \o Flatten(SeqMap(BlockNames, blocks)))
    IN [authority |-> BlockToId(authority, symbols),
        blocks |-> [n \in 1..Len(blocks) |-> BlockToId(blocks[n], symbols)],
        symbols |-> symbols,
        revocation_ids |-> revocation_ids]

revocation_identifiers(token) == token.revocation_ids

(* The inputs of the model: facts, rules, checks, policies and tokens.     *)
Query(body, expressions) == constrained_rule("query", <<>>, body, expressions)
Check(queries) == [queries |-> queries]
Policy(kind, queries) == [kind |-> kind, queries |-> queries]

ResourceFile1 == fact("resource", <<string("file1")>>)
OperationRead == fact("operation", <<s("read")>>)
OperationWrite == fact("operation", <<s("write")>>)
RightFile1 == fact("right", <<s("authority"), string("file1")>>)
RightFile2 == fact("right", <<s("authority"), string("file2")>>)

(* check if operation(#write) *)
CheckWrite == Check(<<Query(<<OperationWrite>>, <<>>)>>)
(* check if operation(#write) or revocation_id(1, $id): the operation is   *)
(* a write or the token has an attenuating block                           *)
CheckWriteOrAttenuated ==
    Check(<<Query(<<OperationWrite>>, <<>>),
            Query(<<pred("revocation_id", <<Integer(1), var("id")>>)>>, <<>>)>>)
(* check if resource("file1") *)
CheckResource == Check(<<Query(<<ResourceFile1>>, <<>>)>>)
(* check if allowed("file1") *)
CheckAllowed == Check(<<Query(<<pred("allowed", <<string("file1")>>)>>, <<>>)>>)
(* check if right(#authority, "file2") *)
CheckRightFile2 == Check(<<Query(<<RightFile2>>, <<>>)>>)

(* allowed($f) <- right(#authority, $f) *)
RuleAllowed == rule("allowed", <<var("f")>>, <<pred("right", <<s("authority"), var("f")>>)>>)
(* allowed($g) <- right(#authority, $f): $g is not bound by the body *)
RuleIllFormed == rule("allowed", <<var("g")>>, <<pred("right", <<s("authority"), var("f")>>)>>)
(* seen($r) <- resource($r) *)
RuleSeen == rule("seen", <<var("r")>>, <<pred("resource", <<var("r")>>)>>)

(* allow if resource($r), operation(#read) *)
PolicyAllowRead ==
    Policy("Allow", <<Query(<<pred("resource", <<var("r")>>), OperationRead>>, <<>>)>>)
(* deny if resource("file1") or operation(#write) *)
PolicyDenyFile1 ==
    Policy("Deny", <<Query(<<ResourceFile1>>, <<>>), Query(<<OperationWrite>>, <<>>)>>)
(* allow if true *)
PolicyAllowTrue == Policy("Allow", <<Query(<<>>, <<<<OpValue(Bool(TRUE))>>>>)>>)
(* deny if true *)
PolicyDenyTrue == Policy("Deny", <<Query(<<>>, <<<<OpValue(Bool(TRUE))>>>>)>>)

(* authority: right(#authority, "file1"); check if resource("file1")       *)
TokenChecks ==
    Biscuit(Block(<<RightFile1>>, <<>>, <<CheckResource>>), <<>>, <<"cc">>)
(* authority: right(#authority, "file1"); allowed($f) <- right(#authority, $f); *)
(*            check if resource("file1"); check if allowed("file1")        *)
TokenAuthorityRule ==
    Biscuit(Block(<<RightFile1>>, <<RuleAllowed>>, <<CheckResource, CheckAllowed>>),
            <<>>, <<"aa">>)
(* authority: check if resource("file1")                                   *)
(* block 1:   right(#authority, "file2"); allowed($f) <- right(#authority, $f); *)
(*            check if right(#authority, "file2"); check if resource("file1") *)
TokenAttenuated ==
    Biscuit(Block(<<>>, <<>>, <<CheckResource>>),
            <<Block(<<RightFile2>>, <<RuleAllowed>>, <<CheckRightFile2, CheckResource>>)>>,
            <<"aa", "bb">>)
(* authority: an ill-formed rule *)
TokenBadAuthorityRule ==
    Biscuit(Block(<<RightFile1>>, <<RuleIllFormed>>, <<>>), <<>>, <<"aa">>)
(* block 1: a well-formed rule, then an ill-formed one *)
TokenBadBlockRule ==
    Biscuit(Block(<<RightFile1>>, <<>>, <<>>),
            <<Block(<<>>, <<RuleAllowed, RuleIllFormed>>, <<>>)>>,
            <<"aa", "bb">>)

Tokens == {TokenChecks, TokenAuthorityRule, TokenAttenuated, TokenBadAuthorityRule, TokenBadBlockRule}

----------------------------------------------------------------------------
(* The Verifier and one call of verify_with_limits.                        *)
(*   world, symbols, checks, token_checks, policies, token: the fields of  *)
(*     the structure;                                                      *)
(*   limits, errors, policy_result, tok: the argument and the locals of    *)
(*     the call in progress (tok is the token taken from self.token);      *)
(*   pc, i, j: the position of the call: the loop it is in and the loop    *)
(*     indexes, counted from 0;                                            *)
(*   result: what the last call returned.                                  *)

VARIABLES world, symbols, checks, token_checks, policies, token,
          limits, errors, policy_result, tok, pc, i, j, result

vars == <<world, symbols, checks, token_checks, policies, token,
          limits, errors, policy_result, tok, pc, i, j, result>>

MaxChecks == 2
MaxPolicies == 2
MaxRules == 1
MaxLoaded == 3

None == [kind |-> "None"]
VerifierLimitsDefault == [max_facts |-> 1000, max_iterations |-> 100, max_time |-> 1]
LimitsMenu == {VerifierLimitsDefault, [max_facts |-> 2, max_iterations |-> 1, max_time |-> 1]}

(* The state as one record, and the state an action leaves. *)
Self ==
    [world |-> world, symbols |-> symbols, checks |-> checks, token_checks |-> token_checks,
     policies |-> policies, token |-> token, limits |-> limits, errors |-> errors,
     policy_result |-> policy_result, tok |-> tok, pc |-> pc, i |-> i, j |-> j,
     result |-> result]

Becomes(v) ==
    /\ world' = v.world
    /\ symbols' = v.symbols
    /\ checks' = v.checks
    /\ token_checks' = v.token_checks
    /\ policies' = v.policies
    /\ token' = v.token
    /\ limits' = v.limits
    /\ errors' = v.errors
    /\ policy_result' = v.policy_result
    /\ tok' = v.tok
    /\ pc' = v.pc
    /\ i' = v.i
    /\ j' = v.j
    /\ result' = v.result

(* Verifier::new and Verifier::from_token *)
new ==
    [world |-> [facts |-> {}, rules |-> <<>>], symbols |-> default_symbol_table,
     checks |-> <<>>, token_checks |-> <<>>, policies |-> <<>>, token |-> NoToken,
     limits |-> VerifierLimitsDefault, errors |-> <<>>, policy_result |-> None,
     tok |-> NoToken, pc |-> "idle", i |-> 0, j |-> 0, result |-> None]

from_token(t) == [new EXCEPT !.token = t]

Loaded(v) ==
    Cardinality(v.world.facts) + Len(v.world.rules) + Len(v.checks) + Len(v.policies)

(* add_fact, interning the names of the fact in a fresh table. *)
add_fact_FreshTable(v, f) ==
    [v EXCEPT !.symbols = FactSymbols(f, default_symbol_table),
              !.world.facts = @ \cup {FactConvert(f, default_symbol_table)}]

(* add_fact, add_resource, add_operation *)
add_fact(v, f) ==
    [v EXCEPT !.symbols = FactSymbols(f, v.symbols),
              !.world.facts = @ \cup {FactConvert(f, v.symbols)}]
add_resource(v, resource) == add_fact(v, fact("resource", <<string(resource)>>))
add_operation(v, operation) == add_fact(v, fact("operation", <<s(operation)>>))

(* add_rule *)
add_rule(v, r) ==
    [v EXCEPT !.symbols = RuleSymbols(r, v.symbols),
              !.world.rules = Append(@, RuleConvert(r, v.symbols))]

(* set_time: the fact time(now); Now is what the system clock reads. *)
Now == 1
set_time(v) == add_fact(v, fact("time", <<date(Now)>>))

(* query_with_limits, query: the world runs under the limits given, then   *)
(* the rule is converted; a run that hits a limit returns before that.     *)
query_with_limits(v, r, L, tmo) ==
    LET run == run_with_limits(v.world, L, tmo)
        ran == [v EXCEPT !.world.facts = run.facts]
    IN IF run.status # "Ok" THEN ran
       ELSE [ran EXCEPT !.symbols = RuleSymbols(r, v.symbols)]
query(v, r, tmo) == query_with_limits(v, r, VerifierLimitsDefault, tmo)

(* add_check, revocation_check *)
add_check(v, c) == [v EXCEPT !.checks = Append(@, c)]

revocation_check(v, ids) ==
    add_check(v,
        Check(<<constrained_rule("revocation_check", <<var("id")>>,
                    <<pred("revocation_id", <<var("id")>>)>>,
                    <<<<OpSet({Integer(ids[n]) : n \in 1..Len(ids)}), OpValue(var("id")),
                        OpContains, OpNegate>>>>)>>))

(* add_policy, allow, deny *)
add_policy(v, p) == [v EXCEPT !.policies = Append(@, p)]
allow(v) == add_policy(v, PolicyAllowTrue)
deny(v) == add_policy(v, PolicyDenyTrue)

(* The serialized form (format::convert, format::schema): the policies are *)
(* written at the datalog level, their names interned in the table that is *)
(* written, and read back with that table.                                 *)
MAX_SCHEMA_VERSION == 1
PolicyNames(p) == Flatten(SeqMap(RuleNames, p.queries))
PolicyToId(p, table) ==
    [kind |-> p.kind, queries |-> [n \in 1..Len(p.queries) |-> RuleToId(p.queries[n], table)]]
PolicyFrom(p, table) ==
    [kind |-> p.kind,
     queries |-> [n \in 1..Len(p.queries) |-> RuleConvertFrom(p.queries[n], table)]]

verifier_to_proto_verifier(input) ==
    LET table == InsertAll(input.symbols, Flatten(SeqMap(PolicyNames, input.policies)))
    IN [input EXCEPT !.symbols = table,
                     !.policies = [n \in 1..Len(input.policies) |->
                                        PolicyToId(input.policies[n], table)]]

proto_verifier_to_verifier(data) ==
    [data EXCEPT !.policies = [n \in 1..Len(data.policies) |->
                                    PolicyFrom(data.policies[n], data.symbols)]]

(* save: the checks are converted with a copy of the table, the checks of  *)
(* token_checks follow them.                                               *)
save(v) ==
    LET table == InsertAll(v.symbols, Flatten(SeqMap(QueriesNames, v.checks)))
        converted == [n \in 1..Len(v.checks) |-> CheckConvert(v.checks[n], table)]
    IN verifier_to_proto_verifier(
        [version |-> MAX_SCHEMA_VERSION,
         symbols |-> table,
         facts |-> v.world.facts,
         rules |-> v.world.rules,
         checks |-> converted \o Flatten(v.token_checks),
         policies |-> v.policies])

(* from, reading the facts and the checks with a fresh table. *)
from_FreshTable(slice) ==
    LET data == proto_verifier_to_verifier(slice)
    IN [new EXCEPT !.world = [facts |-> data.facts, rules |-> data.rules],
                   !.symbols = default_symbol_table,
                   !.checks = [n \in 1..Len(data.checks) |->
                                    CheckConvertFrom(data.checks[n], default_symbol_table)],
                   !.policies = data.policies]

(* from *)
from(slice) ==
    LET data == proto_verifier_to_verifier(slice)
    IN [new EXCEPT !.world = [facts |-> data.facts, rules |-> data.rules],
                   !.symbols = data.symbols,
                   !.checks = [n \in 1..Len(data.checks) |->
                                    CheckConvertFrom(data.checks[n], data.symbols)],
                   !.policies = data.policies]

(* dump: the content of the verifier at the builder level. *)
dump(v) ==
    [facts |-> {FactConvertFrom(f, v.symbols) : f \in v.world.facts},
     rules |-> [n \in 1..Len(v.world.rules) |-> RuleConvertFrom(v.world.rules[n], v.symbols)],
     checks |-> v.checks
                \o [n \in 1..Len(Flatten(v.token_checks)) |->
                        CheckConvertFrom(Flatten(v.token_checks)[n], v.symbols)],
     policies |-> v.policies]

----------------------------------------------------------------------------
(* verify_with_limits, one step per loop iteration.                        *)

Position(name, n, m) == [pc |-> name, i |-> n, j |-> m]
At(v, pos) == [v EXCEPT !.pc = pos.pc, !.i = pos.i, !.j = pos.j]

(* `return`: the call ends, its argument and its locals are dropped. *)
Return(v, res) ==
    [v EXCEPT !.result = res, !.pc = "idle", !.tok = NoToken, !.errors = <<>>,
              !.policy_result = None, !.i = 0, !.j = 0, !.limits = VerifierLimitsDefault]

(* The next iteration to run, from a loop position on: empty loops are     *)
(* passed over, in the order of the loops in the function.                 *)
BlocksFrom(v, k) ==
    IF k < Len(v.tok.blocks) THEN Position("blocks", k, 0) ELSE Position("final", 0, 0)
BlockChecksFrom(v, k, c) ==
    IF c < Len(v.tok.blocks[k + 1].checks) THEN Position("block_checks", k, c)
    ELSE BlocksFrom(v, k + 1)
RECURSIVE PoliciesFrom(_, _, _)
PoliciesFrom(v, p, q) ==
    IF p >= Len(v.policies) THEN BlocksFrom(v, 0)
    ELSE IF q < Len(v.policies[p + 1].queries) THEN Position("policies", p, q)
    ELSE PoliciesFrom(v, p + 1, 0)
AuthorityChecksFrom(v, c) ==
    IF c < Len(v.tok.authority.checks) THEN Position("authority_checks", c, 0)
    ELSE PoliciesFrom(v, 0, 0)
ChecksFrom(v, c) ==
    IF c < Len(v.checks) THEN Position("checks", c, 0) ELSE AuthorityChecksFrom(v, 0)

(* A check's queries are tried in order up to the first that matches. *)
CheckPasses(c, facts) == \E n \in 1..Len(c.queries) : query_match(c.queries[n], facts)
Evaluated(c, facts) ==
    IF CheckPasses(c, facts)
    THEN CHOOSE n \in 1..Len(c.queries) :
            /\ query_match(c.queries[n], facts)
            /\ \A m \in 1..(n - 1) : ~query_match(c.queries[m], facts)
    ELSE Len(c.queries)

(* The index of the first rule that fails validate_variables, 0 if none. *)
FirstInvalid(rules) ==
    IF \A n \in 1..Len(rules) : validate_variables(rules[n]) THEN 0
    ELSE CHOOSE n \in 1..Len(rules) :
            /\ ~validate_variables(rules[n])
            /\ \A m \in 1..(n - 1) : validate_variables(rules[m])

FailedVerifierCheck(check_id, rendered) ==
    [kind |-> "Verifier", check_id |-> check_id, rule |-> rendered]
FailedBlockCheck(block_id, check_id, rendered) ==
    [kind |-> "Block", block_id |-> block_id, check_id |-> check_id, rule |-> rendered]

RunLimit(kind) == [kind |-> "RunLimit", limit |-> kind]
Timeout == RunLimit("Timeout")

Ok(n) == [kind |-> "Ok", index |-> n]
Deny(n) == [kind |-> "Deny", index |-> n]
NoMatchingPolicy == [kind |-> "NoMatchingPolicy"]
FailedChecks(errs) == [kind |-> "FailedChecks", errors |-> errs]
MissingSymbols == [kind |-> "MissingSymbols"]
InvalidBlockRule(block_id, rendered) ==
    [kind |-> "InvalidBlockRule", block_id |-> block_id, rule |-> rendered]
(* Option::unwrap on None *)
Panic == [kind |-> "Panic"]

(* Decision, looking at the candidate before the error list. *)
Decision_CandidateFirst(errs, candidate) ==
    IF candidate.kind = "Allow" THEN Ok(candidate.index)
    ELSE IF errs # <<>> THEN FailedChecks(errs)
    ELSE IF candidate.kind = "Deny" THEN Deny(candidate.index)
    ELSE NoMatchingPolicy

(* Decision, allowing when no policy matched. *)
Decision_DefaultAllow(errs, candidate) ==
    IF errs # <<>> THEN FailedChecks(errs)
    ELSE IF candidate.kind = "Deny" THEN Deny(candidate.index)
    ELSE Ok(IF candidate.kind = "Allow" THEN candidate.index ELSE 0)

(* Lines 421-431: the decision. *)
Decision(errs, candidate) ==
    IF errs # <<>> THEN FailedChecks(errs)
    ELSE IF candidate.kind = "Allow" THEN Ok(candidate.index)
    ELSE IF candidate.kind = "Deny" THEN Deny(candidate.index)
    ELSE NoMatchingPolicy

(* Lines 258-271: the token is taken, its authority facts and its          *)
(* revocation identifiers are inserted in the world.                       *)
AuthorityFacts(t) ==
    [n \in 1..Len(t.authority.facts) |-> FactConvertFrom(t.authority.facts[n], t.symbols)]

RevocationFacts(t, table) ==
    {[name |-> get(table, "revocation_id"),
      terms |-> <<Integer(n - 1), Bytes(revocation_identifiers(t)[n])>>]
        : n \in 1..Len(revocation_identifiers(t))}

(* IngestAuthorityFacts, reading the token without taking it. *)
IngestAuthorityFacts_KeepsToken(v) ==
    LET t == v.token
        symbols1 == InsertAll(v.symbols, Flatten(SeqMap(PredNames, AuthorityFacts(t))))
        facts1 == v.world.facts
                    \cup {PredToId(AuthorityFacts(t)[n], symbols1) : n \in 1..Len(AuthorityFacts(t))}
    IN [v EXCEPT !.tok = t, !.symbols = symbols1, !.world.facts = facts1]

IngestAuthorityFacts(v) ==
    LET t == v.token
        symbols1 == InsertAll(v.symbols, Flatten(SeqMap(PredNames, AuthorityFacts(t))))
        facts1 == v.world.facts
                    \cup {PredToId(AuthorityFacts(t)[n], symbols1) : n \in 1..Len(AuthorityFacts(t))}
    IN [v EXCEPT !.token = NoToken, !.tok = t, !.symbols = symbols1, !.world.facts = facts1]

IngestRevocationIds(v) ==
    [v EXCEPT !.world.facts = @ \cup RevocationFacts(v.tok, v.symbols)]

(* Lines 273-282: each authority rule is converted and validated; it is    *)
(* not pushed on world.rules.                                              *)
AuthorityRules(t) ==
    [n \in 1..Len(t.authority.rules) |-> RuleConvertFrom(t.authority.rules[n], t.symbols)]

IngestAuthorityRules(v) ==
    LET rules == AuthorityRules(v.tok)
        bad == FirstInvalid(rules)
        converted == IF bad = 0 THEN rules ELSE SubSeq(rules, 1, bad)
    IN [v EXCEPT !.symbols = InsertAll(@, Flatten(SeqMap(RuleNames, converted)))]

(* Lines 284-289: the world runs under RunLimits::default(), then its      *)
(* rules are cleared.                                                      *)
(* RunAndClear, leaving the rules in the world. *)
RunAndClear_KeepsRules(v, tmo, next_position) ==
    LET run == run_with_limits(v.world, RunLimitsDefault, tmo)
    IN IF run.status # "Ok"
       THEN Return([v EXCEPT !.world.facts = run.facts], RunLimit(run.status))
       ELSE LET kept == [v EXCEPT !.world.facts = run.facts]
            IN At(kept, next_position)

RunAndClear(v, tmo, next_position) ==
    LET run == run_with_limits(v.world, RunLimitsDefault, tmo)
    IN IF run.status # "Ok"
       THEN Return([v EXCEPT !.world.facts = run.facts], RunLimit(run.status))
       ELSE LET cleared == [v EXCEPT !.world = [facts |-> run.facts, rules |-> <<>>]]
            IN At(cleared, next_position)

(* The state before the authority run, and the call up to the first loop.  *)
BeforeAuthorityRun(v, L) ==
    IngestAuthorityRules(IngestRevocationIds(IngestAuthorityFacts(
        [v EXCEPT !.limits = L, !.errors = <<>>, !.policy_result = None])))

(* VerifyEnter, taking the token before it looks for the reserved symbols. *)
VerifyEnter_TakesTokenFirst(v, L, tmo) ==
    LET entered == [v EXCEPT !.limits = L, !.errors = <<>>, !.policy_result = None]
    IN IF ~Has(v.symbols, "authority") \/ ~Has(v.symbols, "ambient")
       THEN Return([entered EXCEPT !.token = NoToken], MissingSymbols)
       ELSE IF v.token = NoToken
            THEN Return(entered, Decision(entered.errors, entered.policy_result))
       ELSE IF ~Has(IngestAuthorityFacts(entered).symbols, "revocation_id")
            THEN Return(IngestAuthorityFacts(entered), Panic)
       ELSE LET ready == BeforeAuthorityRun(v, L)
                bad == FirstInvalid(AuthorityRules(v.token))
            IN IF bad # 0
               THEN Return(ready,
                        InvalidBlockRule(0,
                            print_rule(v.token.symbols,
                                       RuleToId(AuthorityRules(v.token)[bad], ready.symbols))))
               ELSE LET after == RunAndClear(ready, tmo, Position("checks", 0, 0))
                    IN IF after.pc = "idle" THEN after ELSE At(after, ChecksFrom(after, 0))

VerifyEnter(v, L, tmo) ==
    LET entered == [v EXCEPT !.limits = L, !.errors = <<>>, !.policy_result = None]
    IN IF ~Has(v.symbols, "authority") \/ ~Has(v.symbols, "ambient")
       THEN Return(entered, MissingSymbols)
       ELSE IF v.token = NoToken
            THEN Return(entered, Decision(entered.errors, entered.policy_result))
       ELSE IF ~Has(IngestAuthorityFacts(entered).symbols, "revocation_id")
            THEN Return(IngestAuthorityFacts(entered), Panic)
       ELSE LET ready == BeforeAuthorityRun(v, L)
                bad == FirstInvalid(AuthorityRules(v.token))
            IN IF bad # 0
               THEN Return(ready,
                        InvalidBlockRule(0,
                            print_rule(v.token.symbols,
                                       RuleToId(AuthorityRules(v.token)[bad], ready.symbols))))
               ELSE LET after == RunAndClear(ready, tmo, Position("checks", 0, 0))
                    IN IF after.pc = "idle" THEN after ELSE At(after, ChecksFrom(after, 0))

(* Lines 291-315: one verifier check. *)
VerifierCheck(v, tq) ==
    LET check == v.checks[v.i + 1]
        c == CheckConvert(check, v.symbols)
        converted == [v EXCEPT !.symbols = CheckSymbols(check, v.symbols)]
        successful == CheckPasses(c, v.world.facts)
        failed == FailedVerifierCheck(v.i, print_check(converted.symbols, c))
        checked == [converted EXCEPT !.errors = IF successful THEN @ ELSE Append(@, failed)]
    IN IF tq # 0 THEN Return(converted, Timeout)
       ELSE At(checked, ChecksFrom(checked, v.i + 1))

(* Lines 317-344: one check of the authority block. *)
AuthorityCheck(v, tq) ==
    LET c == CheckConvertFrom(v.tok.authority.checks[v.i + 1], v.tok.symbols)
        check == CheckConvert(c, v.symbols)
        converted == [v EXCEPT !.symbols = CheckSymbols(c, v.symbols)]
        successful == CheckPasses(check, v.world.facts)
        failed == FailedBlockCheck(0, v.i, print_check(converted.symbols, check))
        checked == [converted EXCEPT !.errors = IF successful THEN @ ELSE Append(@, failed)]
    IN IF tq # 0 THEN Return(converted, Timeout)
       ELSE At(checked, AuthorityChecksFrom(checked, v.i + 1))

(* Lines 346-362: one query of one policy. *)
PolicyMatch(kind, n) == [kind |-> kind, index |-> n]

(* PolicyQuery, keeping the first candidate found. *)
PolicyQuery_KeepFirst(v, late) ==
    LET policy == v.policies[v.i + 1]
        the_query == policy.queries[v.j + 1]
        converted == [v EXCEPT !.symbols = RuleSymbols(the_query, v.symbols)]
        res == query_match(RuleConvert(the_query, v.symbols), v.world.facts)
        recorded == [converted EXCEPT !.policy_result =
                        IF res /\ @ = None THEN PolicyMatch(policy.kind, v.i) ELSE @]
    IN IF late THEN Return(converted, Timeout)
       ELSE At(recorded, PoliciesFrom(recorded, v.i, v.j + 1))

PolicyQuery(v, late) ==
    LET policy == v.policies[v.i + 1]
        the_query == policy.queries[v.j + 1]
        converted == [v EXCEPT !.symbols = RuleSymbols(the_query, v.symbols)]
        res == query_match(RuleConvert(the_query, v.symbols), v.world.facts)
        recorded == [converted EXCEPT !.policy_result =
                        IF res THEN PolicyMatch(policy.kind, v.i) ELSE @]
    IN IF late THEN Return(converted, Timeout)
       ELSE At(recorded, PoliciesFrom(recorded, v.i, v.j + 1))

(* Lines 364-389: the facts and the rules of one attenuating block enter   *)
(* the world, the world runs, its rules are cleared.                       *)
BlockFacts(t, k) ==
    [n \in 1..Len(t.blocks[k].facts) |-> FactConvertFrom(t.blocks[k].facts[n], t.symbols)]
BlockRules(t, k) ==
    [n \in 1..Len(t.blocks[k].rules) |-> RuleConvertFrom(t.blocks[k].rules[n], t.symbols)]

IngestBlockFacts(v) ==
    LET block_facts == BlockFacts(v.tok, v.i + 1)
        table == InsertAll(v.symbols, Flatten(SeqMap(PredNames, block_facts)))
    IN [v EXCEPT !.symbols = table,
                 !.world.facts = @ \cup {PredToId(block_facts[n], table) : n \in 1..Len(block_facts)}]

IngestBlockRules(v) ==
    LET block_rules == BlockRules(v.tok, v.i + 1)
        bad == FirstInvalid(block_rules)
        pushed == IF bad = 0 THEN block_rules ELSE SubSeq(block_rules, 1, bad - 1)
        table == InsertAll(v.symbols, Flatten(SeqMap(RuleNames, pushed)))
    IN [v EXCEPT !.symbols = table,
                 !.world.rules = @ \o [n \in 1..Len(pushed) |-> RuleToId(pushed[n], table)]]

BeforeBlockRun(v) == IngestBlockRules(IngestBlockFacts(v))

(* BlockRun, reporting the failed checks collected so far when there are   *)
(* some.                                                                   *)
BlockRun_FailedChecksFirst(v, tmo) ==
    LET ready == BeforeBlockRun(v)
        bad == FirstInvalid(BlockRules(v.tok, v.i + 1))
    IN IF bad # 0
       THEN Return(ready,
                IF v.errors # <<>> THEN FailedChecks(v.errors)
                ELSE InvalidBlockRule(v.i, print_rule(v.tok.symbols, v.tok.blocks[v.i + 1].rules[bad])))
       ELSE LET after == RunAndClear(ready, tmo, Position("block_checks", v.i, 0))
            IN IF after.pc = "idle" THEN after ELSE At(after, BlockChecksFrom(after, v.i, 0))

BlockRun(v, tmo) ==
    LET ready == BeforeBlockRun(v)
        bad == FirstInvalid(BlockRules(v.tok, v.i + 1))
    IN IF bad # 0
       THEN Return(ready,
                InvalidBlockRule(v.i, print_rule(v.tok.symbols, v.tok.blocks[v.i + 1].rules[bad])))
       ELSE LET after == RunAndClear(ready, tmo, Position("block_checks", v.i, 0))
            IN IF after.pc = "idle" THEN after ELSE At(after, BlockChecksFrom(after, v.i, 0))

(* BlockCheck, reporting the loop index as the block id. *)
BlockCheck_LoopIndexAsId(v, tq) ==
    LET c == CheckConvertFrom(v.tok.blocks[v.i + 1].checks[v.j + 1], v.tok.symbols)
        check == CheckConvert(c, v.symbols)
        converted == [v EXCEPT !.symbols = CheckSymbols(c, v.symbols)]
        successful == CheckPasses(check, v.world.facts)
        failed == FailedBlockCheck(v.i, v.j, print_check(converted.symbols, check))
        checked == [converted EXCEPT !.errors = IF successful THEN @ ELSE Append(@, failed)]
    IN IF tq # 0 THEN Return(converted, Timeout)
       ELSE At(checked, BlockChecksFrom(checked, v.i, v.j + 1))

(* Lines 391-417: one check of an attenuating block. *)
BlockCheck(v, tq) ==
    LET c == CheckConvertFrom(v.tok.blocks[v.i + 1].checks[v.j + 1], v.tok.symbols)
        check == CheckConvert(c, v.symbols)
        converted == [v EXCEPT !.symbols = CheckSymbols(c, v.symbols)]
        successful == CheckPasses(check, v.world.facts)
        failed == FailedBlockCheck(v.i + 1, v.j, print_check(converted.symbols, check))
        checked == [converted EXCEPT !.errors = IF successful THEN @ ELSE Append(@, failed)]
    IN IF tq # 0 THEN Return(converted, Timeout)
       ELSE At(checked, BlockChecksFrom(checked, v.i, v.j + 1))

(* Lines 421-431, reached at the end of the loops. *)
Decide(v) == Return(v, Decision(v.errors, v.policy_result))

(* The check the call is at, at the datalog level, and the queries of it   *)
(* that are tried.                                                         *)
CheckAt(v) ==
    CASE v.pc = "checks" -> CheckConvert(v.checks[v.i + 1], v.symbols)
      [] v.pc = "authority_checks" ->
            CheckConvert(CheckConvertFrom(v.tok.authority.checks[v.i + 1], v.tok.symbols),
                         v.symbols)
      [] v.pc = "block_checks" ->
            CheckConvert(CheckConvertFrom(v.tok.blocks[v.i + 1].checks[v.j + 1], v.tok.symbols),
                         v.symbols)
QueriesTried(v) == Evaluated(CheckAt(v), v.world.facts)

(* A whole call in which the clock never passes the deadline, and          *)
(* verify(): verify_with_limits(VerifierLimits::default()).                *)
StepOnTime(v) ==
    CASE v.pc = "checks" -> VerifierCheck(v, 0)
      [] v.pc = "authority_checks" -> AuthorityCheck(v, 0)
      [] v.pc = "policies" -> PolicyQuery(v, FALSE)
      [] v.pc = "blocks" -> BlockRun(v, 0)
      [] v.pc = "block_checks" -> BlockCheck(v, 0)
      [] v.pc = "final" -> Decide(v)

RECURSIVE Complete(_)
Complete(v) == IF v.pc = "idle" THEN v ELSE Complete(StepOnTime(v))

verify_with_limits(v, L) == Complete(VerifyEnter(v, L, 0))
verify(v) == verify_with_limits(v, VerifierLimitsDefault)

----------------------------------------------------------------------------
(* The state machine. *)

FactMenu == {ResourceFile1, OperationRead}
RuleMenu == {RuleSeen}
QueryMenu == {RuleSeen}
CheckMenu == {CheckWrite, CheckWriteOrAttenuated}
RevokedMenu == {<<170>>}
PolicyMenu == {PolicyAllowRead, PolicyDenyFile1}

Init == \E t \in Tokens \cup {NoToken} :
    /\ world = [facts |-> {}, rules |-> <<>>]
    /\ symbols = default_symbol_table
    /\ checks = <<>>
    /\ token_checks = <<>>
    /\ policies = <<>>
    /\ token = t
    /\ limits = VerifierLimitsDefault
    /\ errors = <<>>
    /\ policy_result = None
    /\ tok = NoToken
    /\ pc = "idle"
    /\ i = 0
    /\ j = 0
    /\ result = None

(* The host loads the verifier before it verifies. *)
Loading == pc = "idle" /\ result = None /\ Loaded(Self) < MaxLoaded

AddFact == Loading /\ \E f \in FactMenu : Becomes(add_fact(Self, f))
AddResource == Loading /\ Becomes(add_resource(Self, "file1"))
AddOperation == Loading /\ Becomes(add_operation(Self, "read"))
AddRule ==
    Loading /\ Len(world.rules) < MaxRules /\ \E r \in RuleMenu : Becomes(add_rule(Self, r))
SetTime == Loading /\ Becomes(set_time(Self))
RunQuery ==
    /\ Loading
    /\ \E r \in QueryMenu : \E L \in LimitsMenu :
        \E tmo \in 0..PassCount(world.facts, world.rules) :
            Becomes(query_with_limits(Self, r, L, tmo))
AddCheck ==
    Loading /\ Len(checks) < MaxChecks /\ \E c \in CheckMenu : Becomes(add_check(Self, c))
RevocationCheck ==
    Loading /\ Len(checks) < MaxChecks /\ \E ids \in RevokedMenu : Becomes(revocation_check(Self, ids))
AddPolicy ==
    Loading /\ Len(policies) < MaxPolicies /\ \E p \in PolicyMenu : Becomes(add_policy(Self, p))
Allow == Loading /\ Len(policies) < MaxPolicies /\ Becomes(allow(Self))
DenyAll == Loading /\ Len(policies) < MaxPolicies /\ Becomes(deny(Self))

Verify ==
    /\ pc = "idle"
    /\ \E L \in LimitsMenu :
        \E tmo \in 0..(IF token = NoToken THEN 0
                       ELSE PassCount(BeforeAuthorityRun(Self, L).world.facts, world.rules)) :
            Becomes(VerifyEnter(Self, L, tmo))

StepVerifierCheck ==
    pc = "checks" /\ \E tq \in 0..QueriesTried(Self) : Becomes(VerifierCheck(Self, tq))
StepAuthorityCheck ==
    pc = "authority_checks" /\ \E tq \in 0..QueriesTried(Self) : Becomes(AuthorityCheck(Self, tq))
StepPolicyQuery == pc = "policies" /\ \E late \in BOOLEAN : Becomes(PolicyQuery(Self, late))
StepBlockRun ==
    /\ pc = "blocks"
    /\ \E tmo \in 0..PassCount(BeforeBlockRun(Self).world.facts, BeforeBlockRun(Self).world.rules) :
            Becomes(BlockRun(Self, tmo))
StepBlockCheck ==
    pc = "block_checks" /\ \E tq \in 0..QueriesTried(Self) : Becomes(BlockCheck(Self, tq))
StepDecide == pc = "final" /\ Becomes(Decide(Self))

Next ==
    \/ AddFact
    \/ AddResource
    \/ AddOperation
    \/ AddRule
    \/ SetTime
    \/ RunQuery
    \/ AddCheck
    \/ RevocationCheck
    \/ AddPolicy
    \/ Allow
    \/ DenyAll
    \/ Verify
    \/ StepVerifierCheck
    \/ StepAuthorityCheck
    \/ StepPolicyQuery
    \/ StepBlockRun
    \/ StepBlockCheck
    \/ StepDecide

Spec == Init /\ [][Next]_vars

(* A verifier whose table the host has replaced (symbols is a public       *)
(* field) by one that lacks a reserved name, loaded and then verified.     *)
Without(table, name) == SelectSeq(table, LAMBDA x : x # name)
TableMenu ==
    {Without(default_symbol_table, "authority"),
     Without(default_symbol_table, "ambient"),
     Without(Without(default_symbol_table, "authority"), "ambient")}

InitForeignTable == \E t \in Tokens \cup {NoToken} : \E table \in TableMenu :
    /\ world = [facts |-> {}, rules |-> <<>>]
    /\ symbols = table
    /\ checks = <<>>
    /\ token_checks = <<>>
    /\ policies = <<>>
    /\ token = t
    /\ limits = VerifierLimitsDefault
    /\ errors = <<>>
    /\ policy_result = None
    /\ tok = NoToken
    /\ pc = "idle"
    /\ i = 0
    /\ j = 0
    /\ result = None

NextForeignTable ==
    \/ AddFact
    \/ AddResource
    \/ AddOperation
    \/ AddRule
    \/ SetTime
    \/ RunQuery
    \/ AddCheck
    \/ RevocationCheck
    \/ AddPolicy
    \/ Allow
    \/ DenyAll
    \/ Verify

SpecForeignTable == InitForeignTable /\ [][NextForeignTable]_vars

----------------------------------------------------------------------------
(* Properties.                                                             *)

InCall == pc # "idle"
WithToken == tok # NoToken

(* A step that is a whole call of verify on a verifier with no token. *)
TokenlessCall == pc = "idle" /\ token = NoToken /\ pc' = "idle" /\ result' # result

(* What a check or a policy query gives on the facts the world holds now.  *)
HostCheckMatches(n) == CheckPasses(CheckConvert(checks[n], symbols), world.facts)
AuthorityCheckMatches(n) ==
    CheckPasses(CheckConvert(CheckConvertFrom(tok.authority.checks[n], tok.symbols), symbols),
                world.facts)
BlockCheckMatches(k, n) ==
    CheckPasses(CheckConvert(CheckConvertFrom(tok.blocks[k].checks[n], tok.symbols), symbols),
                world.facts)
PolicyQueryMatches(n, m) ==
    query_match(RuleConvert(policies[n].queries[m], symbols), world.facts)
PolicyMatches(n) == \E m \in 1..Len(policies[n].queries) : PolicyQueryMatches(n, m)

(* The world is as the authority run left it: no attenuating block has     *)
(* been ingested yet in this call.                                         *)
BeforeBlocks ==
    \/ pc \in {"checks", "authority_checks", "policies"}
    \/ pc = "blocks" /\ i = 0
    \/ pc = "final" /\ WithToken /\ Len(tok.blocks) = 0

(* The policy loop is over and the world is still as the loop saw it. *)
PoliciesDone ==
    \/ pc = "blocks" /\ i = 0
    \/ pc = "final" /\ WithToken /\ Len(tok.blocks) = 0

(* C1: without a token, verify still evaluates the host's checks and       *)
(* policies over the host's facts: the call returns FailedChecks naming    *)
(* the host checks that do not match if there is one, else the verdict of  *)
(* a matching policy, else NoMatchingPolicy.                               *)
C1_NoTokenStillEvaluates ==
    [][TokenlessCall =>
        IF \E n \in 1..Len(checks) : ~HostCheckMatches(n)
        THEN /\ result'.kind = "FailedChecks"
             /\ {result'.errors[n].check_id : n \in 1..Len(result'.errors)}
                    = {n - 1 : n \in {m \in 1..Len(checks) : ~HostCheckMatches(m)}}
        ELSE IF \E n \in 1..Len(policies) : PolicyMatches(n)
             THEN \E n \in 1..Len(policies) :
                    /\ PolicyMatches(n)
                    /\ result' = IF policies[n].kind = "Allow" THEN Ok(n - 1) ELSE Deny(n - 1)
             ELSE result' = NoMatchingPolicy]_vars

(* C2: verify returns Ok(n) only if no check failed, policy n exists, is   *)
(* an Allow policy and one of its queries matches the world; every check   *)
(* of the host, of the authority block and of the attenuating blocks then  *)
(* matches the world.                                                      *)
C2_OkOnlyOnAllowMatch ==
    [][(pc = "final" /\ result'.kind = "Ok") =>
        /\ errors = <<>>
        /\ policy_result.kind = "Allow"
        /\ result'.index + 1 \in 1..Len(policies)
        /\ policies[result'.index + 1].kind = "Allow"
        /\ PolicyMatches(result'.index + 1)
        /\ WithToken
        /\ \A n \in 1..Len(checks) : HostCheckMatches(n)
        /\ \A n \in 1..Len(tok.authority.checks) : AuthorityCheckMatches(n)
        /\ \A k \in 1..Len(tok.blocks) :
                \A n \in 1..Len(tok.blocks[k].checks) : BlockCheckMatches(k, n)]_vars

C2_Witness ==
    /\ pc = "idle" /\ result = Ok(1)
    /\ Len(policies) = 2 /\ policies[1].kind = "Deny"

(* The entries of an error list, without the rendering of the check. *)
EntryId(e) ==
    IF e.kind = "Verifier" THEN <<"Verifier", 0, e.check_id>>
    ELSE <<"Block", e.block_id, e.check_id>>
EntryIds(errs) == {EntryId(errs[n]) : n \in 1..Len(errs)}
IsPrefix(xs, ys) == Len(xs) <= Len(ys) /\ SubSeq(ys, 1, Len(xs)) = xs

(* The checks evaluated so far in the stage the call is in. *)
HostChecksDone == IF pc = "checks" THEN i ELSE Len(checks)
AuthorityChecksDone ==
    IF pc = "checks" THEN 0
    ELSE IF pc = "authority_checks" THEN i ELSE Len(tok.authority.checks)

(* Block k (counted from 1) has run and the world is as its run left it;   *)
(* the checks of it evaluated so far.                                      *)
AfterRunOf(k) ==
    \/ pc = "block_checks" /\ i + 1 = k
    \/ pc = "blocks" /\ i = k
    \/ pc = "final" /\ WithToken /\ Len(tok.blocks) = k
BlockChecksDone(k) == IF pc = "block_checks" THEN j ELSE Len(tok.blocks[k].checks)

(* C3: with a token, the error list holds exactly the checks that did not  *)
(* match, each once: Verifier{n} for host check n, Block{0, n} for         *)
(* authority check n, Block{k, n} for check n of the k-th attenuating      *)
(* block; entries are only ever appended, and a call that reaches the      *)
(* decision with a non-empty list returns FailedChecks of that list.       *)
C3_ErrorsExact ==
    (InCall /\ WithToken) =>
        /\ Cardinality(EntryIds(errors)) = Len(errors)
        /\ BeforeBlocks =>
             EntryIds(errors) =
                {<<"Verifier", 0, n - 1>> : n \in {m \in 1..HostChecksDone : ~HostCheckMatches(m)}}
                \cup {<<"Block", 0, n - 1>> :
                        n \in {m \in 1..AuthorityChecksDone : ~AuthorityCheckMatches(m)}}
        /\ \A k \in 1..Len(tok.blocks) :
             AfterRunOf(k) =>
                {e \in EntryIds(errors) : e[1] = "Block" /\ e[2] >= k} =
                    {<<"Block", k, n - 1>> :
                        n \in {m \in 1..BlockChecksDone(k) : ~BlockCheckMatches(k, m)}}

C3_FailedChecksAggregated ==
    /\ []C3_ErrorsExact
    /\ [][(InCall /\ pc' # "idle") => IsPrefix(errors, errors')]_vars
    /\ [][(pc = "final" /\ WithToken /\ errors # <<>>) => result' = FailedChecks(errors)]_vars

C3_Witness ==
    /\ pc = "idle" /\ result.kind = "FailedChecks"
    /\ EntryIds(result.errors) = {<<"Verifier", 0, 1>>, <<"Block", 0, 0>>, <<"Block", 1, 1>>}

(* C4 as claimed: with no policy loaded, a call that reaches the decision  *)
(* returns NoMatchingPolicy whatever the checks gave.                      *)
C4_Original ==
    [][((pc = "final" \/ TokenlessCall) /\ policies = <<>>) => result' = NoMatchingPolicy]_vars

(* C4 as amended: with no policy loaded, a call that reaches the decision  *)
(* returns FailedChecks of the failed checks if a check failed and         *)
(* NoMatchingPolicy otherwise; it never returns Ok or Deny.                *)
C4_NoPolicyNeverAllows ==
    [][((pc = "final" \/ TokenlessCall) /\ policies = <<>>) =>
        result' = IF errors = <<>> THEN NoMatchingPolicy ELSE FailedChecks(errors)]_vars

C4_Witness == pc = "idle" /\ policies = <<>> /\ result.kind = "FailedChecks"

(* The first policy, in the order they were added, that matches the world. *)
FirstMatching ==
    IF \E n \in 1..Len(policies) : PolicyMatches(n)
    THEN CHOOSE n \in 1..Len(policies) :
            PolicyMatches(n) /\ \A m \in 1..(n - 1) : ~PolicyMatches(m)
    ELSE 0

(* C5: when several policies match, the verdict is that of the first       *)
(* matching policy in the order the policies were added: the candidate the *)
(* policy loop leaves has its kind, and with no failed check a first       *)
(* matching Deny policy n gives Deny(n), never Ok.                         *)
C5_FirstMatchWins ==
    (PoliciesDone /\ FirstMatching # 0) =>
        /\ policy_result.kind = policies[FirstMatching].kind
        /\ (errors = <<>> /\ policies[FirstMatching].kind = "Deny") =>
                Decision(errors, policy_result) = Deny(FirstMatching - 1)

(* The last query, in the order of the loop, that matches the world among  *)
(* those before query m of policy n (both counted from 1): the index of    *)
(* its policy, 0 if there is none.                                         *)
MatchedBefore(n, m) ==
    {p \in 1..Len(policies) :
        \E q \in 1..Len(policies[p].queries) :
            /\ p < n \/ (p = n /\ q < m)
            /\ PolicyQueryMatches(p, q)}
LastOf(S) == IF S = {} THEN 0 ELSE CHOOSE p \in S : \A q \in S : q <= p
Candidate(p) == IF p = 0 THEN None ELSE PolicyMatch(policies[p].kind, p - 1)

(* C6: the policy loop visits every query of every policy in order without *)
(* breaking: at each position of the loop the candidate is the policy of   *)
(* the last query that matched among those already visited, and after the  *)
(* loop it is the policy of the last query that matched, None iff none     *)
(* did.                                                                    *)
C6_LastMatchingQuery ==
    /\ pc = "policies" =>
            /\ i + 1 \in 1..Len(policies) /\ j + 1 \in 1..Len(policies[i + 1].queries)
            /\ policy_result = Candidate(LastOf(MatchedBefore(i + 1, j + 1)))
    /\ PoliciesDone =>
            /\ policy_result = Candidate(LastOf(MatchedBefore(Len(policies) + 1, 1)))
            /\ policy_result = None <=> \A n \in 1..Len(policies) : ~PolicyMatches(n)

C6_Witness ==
    /\ PoliciesDone /\ Len(policies) = 2
    /\ PolicyMatches(1) /\ PolicyMatches(2) /\ policies[1].kind = "Deny"
    /\ policy_result = PolicyMatch("Allow", 1)

(* A fact scoped authority or ambient: its predicate or its first term is  *)
(* one of the two reserved symbols.  The token without the facts of that   *)
(* kind that its attenuating blocks supply.                                *)
Scoped(f) ==
    \/ f.name \in {"authority", "ambient"}
    \/ Len(f.terms) > 0 /\ f.terms[1].k = "sym" /\ f.terms[1].s \in {"authority", "ambient"}

WithoutScopedBlockFacts(t) ==
    [t EXCEPT !.blocks =
        [k \in 1..Len(t.blocks) |->
            [t.blocks[k] EXCEPT !.facts =
                LET Kept(f) == ~Scoped(FactConvertFrom(f, t.symbols))
                IN SelectSeq(t.blocks[k].facts, Kept)]]]

(* C7: authority isolation: a fact scoped authority or ambient that an     *)
(* attenuating block supplies changes nothing; verify returns what it      *)
(* returns for the token without that fact.                                *)
C7_AuthorityIsolation ==
    (pc = "idle" /\ token # NoToken) =>
        verify(Self).result = verify([Self EXCEPT !.token = WithoutScopedBlockFacts(token)]).result

(* Saturating the world takes more facts or more iterations than L allows. *)
NeedsMore(w, L) == run_with_limits(w, L, 0).status \in {"TooManyFacts", "TooManyIterations"}

(* C8: the limits given to verify_with_limits bound every Datalog run of   *)
(* the call: when the authority run or a block run needs more than         *)
(* max_facts facts or max_iterations iterations, the call returns RunLimit.*)
C8_CallerLimitsBoundRuns ==
    /\ [][(/\ pc = "idle" /\ token # NoToken /\ token' = NoToken
           /\ FirstInvalid(AuthorityRules(token)) = 0
           /\ NeedsMore(BeforeAuthorityRun(Self, limits').world, limits'))
          => result'.kind = "RunLimit"]_vars
    /\ [][(/\ pc = "blocks"
           /\ FirstInvalid(BlockRules(tok, i + 1)) = 0
           /\ NeedsMore(BeforeBlockRun(Self).world, limits))
          => (pc' = "idle" /\ result'.kind = "RunLimit")]_vars

(* C9: the well-formed rules of the authority block have been applied when *)
(* the verifier checks, the authority checks and the policies are          *)
(* evaluated: every fact they derive from the world is in the world.       *)
C9_AuthorityRulesApplied ==
    (InCall /\ WithToken /\ BeforeBlocks) =>
        \A n \in 1..Len(tok.authority.rules) :
            validate_variables(AuthorityRules(tok)[n]) =>
                RuleApply(RuleConvert(AuthorityRules(tok)[n], symbols), world.facts)
                    \subseteq world.facts

(* The check revocation_check(ids) adds, and the number a revocation       *)
(* identifier of the model stands for.                                     *)
RevocationCheckOf(ids) == revocation_check(new, ids).checks[1]
ByteValue(b) ==
    CASE b = "aa" -> 170 [] b = "bb" -> 187 [] b = "cc" -> 204 [] b = "dd" -> 221 [] OTHER -> 0

(* C10: the check added by revocation_check(ids) fails exactly when one of *)
(* the token's revocation identifiers is in ids.                           *)
C10_RevocationCheckExact ==
    (pc = "checks" /\ WithToken) =>
        \A ids \in RevokedMenu :
            checks[i + 1] = RevocationCheckOf(ids) =>
                (HostCheckMatches(i + 1) <=>
                    \A n \in 1..Len(revocation_identifiers(tok)) :
                        \A m \in 1..Len(ids) : ByteValue(revocation_identifiers(tok)[n]) # ids[m])

(* C11: an ill-formed rule makes verify return InvalidBlockRule(b, _)      *)
(* where b names the block that holds the rule in the numbering of         *)
(* FailedBlockCheck: 0 for the authority block, k for the k-th attenuating *)
(* block.                                                                  *)
C11_InvalidBlockRuleId ==
    /\ [][(pc = "idle" /\ token # NoToken /\ result'.kind = "InvalidBlockRule")
            => result'.block_id = 0]_vars
    /\ [][(pc = "blocks" /\ result'.kind = "InvalidBlockRule")
            => result'.block_id = i + 1]_vars

(* C12: symbols is append-only: no step of any operation shortens the      *)
(* table or changes the string stored at an id it already holds.           *)
C12_SymbolsAppendOnly == [][IsPrefix(symbols, symbols')]_vars

C12_Witness ==
    /\ pc = "idle" /\ result # None
    /\ Has(symbols, "read") /\ Has(symbols, "seen") /\ Has(symbols, "right")
    /\ Len(symbols) >= Len(default_symbol_table) + 5

(* The verifier loaded from what this one saves, given the token this one  *)
(* holds; the decision in a result, without the rendering of a rule.       *)
Reloaded == [from(save(Self)) EXCEPT !.token = token]
Verdict(res) ==
    IF res.kind = "InvalidBlockRule" THEN [kind |-> res.kind, block_id |-> res.block_id]
    ELSE res

TokenCallStart == pc = "idle" /\ token # NoToken /\ token' = NoToken

(* C14: aborting errors take priority: a call that returns before the end  *)
(* of its loops returns RunLimit or InvalidBlockRule, whatever failed      *)
(* checks and policy candidate it holds; an ill-formed rule ends the call  *)
(* at the step that meets it; FailedChecks and the policy decisions are    *)
(* returned only at the end of the loops.                                  *)
C14_AbortingErrorsFirst ==
    /\ [][(InCall /\ pc # "final" /\ pc' = "idle")
            => result'.kind \in {"RunLimit", "InvalidBlockRule"}]_vars
    /\ [][(pc = "blocks" /\ FirstInvalid(BlockRules(tok, i + 1)) # 0)
            => (pc' = "idle" /\ result'.kind = "InvalidBlockRule")]_vars
    /\ [][(TokenCallStart /\ FirstInvalid(AuthorityRules(token)) # 0)
            => (pc' = "idle" /\ result'.kind = "InvalidBlockRule")]_vars
    /\ [][(TokenCallStart /\ pc' = "idle")
            => result'.kind \in {"RunLimit", "InvalidBlockRule"}]_vars
    /\ [][(InCall /\ pc' # "idle") => result' = result]_vars

(* A call returned InvalidBlockRule after it evaluated a host check that   *)
(* fails and a policy that matches.                                        *)
C14_Witness ==
    /\ pc = "idle" /\ result.kind = "InvalidBlockRule"
    /\ Has(symbols, "write") /\ Len(checks) > 0 /\ ~HostCheckMatches(1)
    /\ Len(policies) > 0 /\ PolicyMatches(1)

(* The rules of block k of the token of the call, as the verifier's table  *)
(* converts them, and the facts named name in the world.                   *)
OwnRules(k) ==
    [n \in 1..Len(tok.blocks[k].rules) |->
        RuleToId(BlockRules(tok, k)[n], BeforeBlockRun(Self).symbols)]
FactsNamed(name) == {f \in world.facts : print_symbol(symbols, f.name) = name}

(* C15: in a call with a token world.rules is empty after the authority    *)
(* run and after every block run, up to the decision: the run of a block   *)
(* saturates the world under the rules of that block alone.                *)
C15_RulesClearedAfterRun ==
    /\ [](InCall => world.rules = <<>>)
    /\ [][(pc = "blocks" /\ pc' # "idle") =>
            /\ world'.rules = <<>>
            /\ world'.facts =
                    run_with_limits([facts |-> BeforeBlockRun(Self).world.facts,
                                     rules |-> OwnRules(i + 1)], RunLimitsDefault, 0).facts]_vars
    /\ [][(TokenCallStart /\ pc' # "idle") => world'.rules = <<>>]_vars

(* A call reached the decision with a rule of the host applied by the      *)
(* authority run and a rule of a block applied by the run of that block.   *)
C15_Witness ==
    /\ pc = "final" /\ WithToken /\ world.rules = <<>>
    /\ Len(tok.blocks) > 0 /\ tok.blocks[1].rules # <<>>
    /\ FactsNamed("seen") # {} /\ FactsNamed("allowed") # {}

(* C16: when authority or ambient is not in symbols, verify returns        *)
(* MissingSymbols and leaves the world, the checks, the policies, the      *)
(* table and the token as they were.                                       *)
C16_MissingSymbolsFrame ==
    [][(/\ pc = "idle"
        /\ ~Has(symbols, "authority") \/ ~Has(symbols, "ambient")
        /\ result' # result)
       => /\ result' = MissingSymbols
          /\ pc' = "idle"
          /\ UNCHANGED <<world, symbols, checks, token_checks, policies, token>>]_vars

C16_Witness ==
    /\ pc = "idle" /\ result = MissingSymbols
    /\ token # NoToken /\ world.facts # {} /\ world.rules # <<>> /\ checks # <<>>

(* The token with one more attenuating block: the names of the block are   *)
(* appended to the table of the token, its revocation identifier to the    *)
(* identifiers.                                                            *)
Extended(t, b, id) ==
    LET table == InsertAll(t.symbols, BlockNames(b))
    IN [t EXCEPT !.symbols = table,
                 !.blocks = Append(@, BlockToId(b, table)),
                 !.revocation_ids = Append(@, id)]

BlockMenu ==
    {Block(<<>>, <<>>, <<>>),
     Block(<<RightFile2>>, <<RuleAllowed>>, <<CheckRightFile2>>)}

(* C17: attenuation only restricts: when verify does not return Ok for a   *)
(* token, it does not return Ok for that token with one more attenuating   *)
(* block.                                                                  *)
C17_AttenuationOnlyRestricts ==
    (pc = "idle" /\ result = None /\ token # NoToken) =>
        \A b \in BlockMenu :
            verify(Self).result.kind # "Ok" =>
                verify([Self EXCEPT !.token = Extended(token, b, "dd")]).result.kind # "Ok"

====
